---- MODULE Spec2Model ----
(***************************************************************************)
(* Model of the 128-bit identifier of try_poem/src/lib.rs: the Id type,    *)
(* its hex codec, the id_newtype! wrappers (TimelineId, TenantId) and the  *)
(* poem JSON adapter.                                                      *)
(*                                                                         *)
(* Byte arrays, strings (as their UTF-8 bytes) and buffers are functions   *)
(* over 0..n-1, indexed as in the source. A u128 is its 128 bits, bit k    *)
(* carrying the weight 2^k, since the values exceed the model checker's    *)
(* integers.                                                               *)
(***************************************************************************)
EXTENDS Integers, FiniteSets, TLC

VARIABLES
    ty,      \* the type under exercise: "Id", "TimelineId" or "TenantId"
    kind,    \* which input the run was given: bytes, pair, text, json, buf
    arr,     \* the [u8; 16] handed to From<[u8; 16]> / from_array
    arr2,    \* a second [u8; 16], for comparisons
    str,     \* the &str handed to from_str / from_hex
    json,    \* the Option<serde_json::Value> handed to parse_from_json
    cur,     \* the bytes::Buf cursor: [data, pos]
    pc,      \* the last operation that ran ("start" before any)
    id,      \* Option of the identifier value the last constructor returned
    id2,     \* Option of the second identifier value (comparisons)
    text,    \* the String last produced by Display / Debug, or the input text
    res,     \* the Result error of the last fallible operation
    num,     \* the u128 last produced
    ord      \* the Ordering and equality last computed

vars == <<ty, kind, arr, arr2, str, json, cur, pc, id, id2, text, res, num, ord>>

----------------------------------------------------------------------------
(* Sizes fixed by the program *)

\* pub struct Id([u8; 16])
ID_LEN == 16

\* the width of u128
U128_BITS == 128

(* Bounds of the model *)

\* input strings have lengths within this distance of 2 * ID_LEN
MaxLenDelta == 2

\* a cursor holds at most 2 * ID_LEN + MaxTail bytes
MaxTail == 2

\* a cursor starts at most this many bytes into its data
MaxPos == 1

----------------------------------------------------------------------------
(* Helpers over 0-indexed byte strings *)

Len(f) == Cardinality(DOMAIN f)

Empty == [i \in {} |-> 0]

Min(a, b) == IF a < b THEN a ELSE b

RECURSIVE Pow2(_)
Pow2(n) == IF n = 0 THEN 1 ELSE 2 * Pow2(n - 1)

\* bit j of the byte b
Bit(b, j) == (b \div Pow2(j)) % 2

----------------------------------------------------------------------------
(* The values of the program *)

\* Option<T>
None == [some |-> FALSE, val |-> Empty]
Some(v) == [some |-> TRUE, val |-> v]

\* hex::FromHexError
NoErr == [kind |-> "none", c |-> 0, index |-> 0]
OddLength == [kind |-> "OddLength", c |-> 0, index |-> 0]
InvalidStringLength == [kind |-> "InvalidStringLength", c |-> 0, index |-> 0]
InvalidHexCharacter(c, index) == [kind |-> "InvalidHexCharacter", c |-> c, index |-> index]

\* Result<T, E>
Ok(v) == [ok |-> TRUE, val |-> v, err |-> NoErr]
Err(e) == [ok |-> FALSE, val |-> Empty, err |-> e]

\* the tuple struct Id([u8; 16]), its field named as in self.0
Id(b) == [arr |-> b]

\* the tuple structs TimelineId(Id) and TenantId(Id)
Kinds == {"TimelineId", "TenantId"}
Types == {"Id"} \cup Kinds
Newtype(t, v) == [tag |-> t, id |-> v]

----------------------------------------------------------------------------
(* impl Id *)

\* the table in upper case
HEX_upper == [i \in 0..15 |-> IF i < 10 THEN 48 + i ELSE 55 + i]

\* static HEX: &[u8] = b"0123456789abcdef"
HEX == [i \in 0..15 |-> IF i < 10 THEN 48 + i ELSE 87 + i]

Id_from(b) == Id(b)

Id_as_arr(self) == self.arr

\* hex_encode with the low nibble in both characters
hex_encode_lo(self) ==
    [k \in 0..(Len(self.arr) * 2 - 1) |-> HEX[self.arr[k \div 2] % 16]]

\* buf.chunks_exact_mut(2) zipped with the bytes: chunk k \div 2 holds byte
\* k \div 2, its high nibble first
hex_encode(self) ==
    [k \in 0..(Len(self.arr) * 2 - 1) |->
        IF k % 2 = 0
        THEN HEX[(self.arr[k \div 2] \div 16) % 16]
        ELSE HEX[self.arr[k \div 2] % 16]]

Id_fmt(self) == hex_encode(self)

----------------------------------------------------------------------------
(* hex::decode_to_slice, as called by from_hex *)

\* val with the 10 of a-f forgotten
val_no_ten(c, idx) ==
    IF c >= 65 /\ c <= 70 THEN Ok(c - 65 + 10)
    ELSE IF c >= 97 /\ c <= 102 THEN Ok(c - 97)
    ELSE IF c >= 48 /\ c <= 57 THEN Ok(c - 48)
    ELSE Err(InvalidHexCharacter(c, idx))

\* hex's val(c, idx): both cases of a-f are digits
val(c, idx) ==
    IF c >= 65 /\ c <= 70 THEN Ok(c - 65 + 10)
    ELSE IF c >= 97 /\ c <= 102 THEN Ok(c - 97 + 10)
    ELSE IF c >= 48 /\ c <= 57 THEN Ok(c - 48)
    ELSE Err(InvalidHexCharacter(c, idx))

\* the first index of data whose character is no digit, or Len(data)
RECURSIVE FirstBad(_, _)
FirstBad(data, k) ==
    IF k >= Len(data) THEN k
    ELSE IF val(data[k], k).ok THEN FirstBad(data, k + 1)
    ELSE k

\* decode_to_slice without its two length checks
decode_to_slice_no_length(data, outLen) ==
    LET bad == FirstBad(data, 0) IN
    IF bad < Min(Len(data), 2 * outLen) THEN Err(val(data[bad], bad).err)
    ELSE Ok([i \in 0..(outLen - 1) |->
                IF 2 * i + 1 < Len(data)
                THEN (val(data[2 * i], 2 * i).val * 16 + val(data[2 * i + 1], 2 * i + 1).val) % 256
                ELSE 0])

\* the length checks, then byte i from the characters 2i and 2i + 1; the first
\* bad character ends the loop with its error
decode_to_slice(data, outLen) ==
    IF Len(data) % 2 # 0 THEN Err(OddLength)
    ELSE IF Len(data) \div 2 # outLen THEN Err(InvalidStringLength)
    ELSE LET bad == FirstBad(data, 0) IN
         IF bad < Len(data) THEN Err(val(data[bad], bad).err)
         ELSE Ok([i \in 0..(outLen - 1) |->
                    (val(data[2 * i], 2 * i).val * 16 + val(data[2 * i + 1], 2 * i + 1).val) % 256])

Id_from_hex(hex) ==
    LET r == decode_to_slice(hex, ID_LEN) IN
    IF r.ok THEN Ok(Id(r.val)) ELSE Err(r.err)

Id_from_str(s) == Id_from_hex(s)

----------------------------------------------------------------------------
(* impl From<Id> for u128 *)

\* u128::from_be_bytes: byte 0 supplies the highest bits
from_be_bytes(bytes) ==
    [k \in 0..(U128_BITS - 1) |-> Bit(bytes[(ID_LEN - 1) - (k \div 8)], k % 8)]

\* u128::from_le_bytes: byte i supplies the bits 8i .. 8i + 7
from_le_bytes(bytes) ==
    [k \in 0..(U128_BITS - 1) |-> Bit(bytes[k \div 8], k % 8)]

Id_into_u128(self) == from_le_bytes(self.arr)

----------------------------------------------------------------------------
(* #[derive(PartialEq, Eq, PartialOrd, Ord)] on Id([u8; 16]) *)

\* the comparison of arrays: the first index at which they differ decides
RECURSIVE cmp_from(_, _, _)
cmp_from(a, b, i) ==
    IF i >= Len(a) THEN "Equal"
    ELSE IF a[i] < b[i] THEN "Less"
    ELSE IF a[i] > b[i] THEN "Greater"
    ELSE cmp_from(a, b, i + 1)

\* the comparison a little-endian integer would give: the last index decides
RECURSIVE cmp_down(_, _, _)
cmp_down(a, b, i) ==
    IF i < 0 THEN "Equal"
    ELSE IF a[i] < b[i] THEN "Less"
    ELSE IF a[i] > b[i] THEN "Greater"
    ELSE cmp_down(a, b, i - 1)

Id_cmp_numeric(a, b) == cmp_down(a.arr, b.arr, Len(a.arr) - 1)

Id_cmp(a, b) == cmp_from(a.arr, b.arr, 0)

Id_eq(a, b) == \A i \in 0..(ID_LEN - 1) : a.arr[i] = b.arr[i]

----------------------------------------------------------------------------
(* Id::get_from_buf, over bytes::Buf *)

Remaining(c) == Len(c.data) - c.pos

\* a copy that takes what is there and leaves the rest of dst zero
copy_to_slice_padded(c, n) ==
    LET m == Min(n, Remaining(c)) IN
    [panic |-> FALSE,
     dst |-> [i \in 0..(n - 1) |-> IF i < m THEN c.data[c.pos + i] ELSE 0],
     cur |-> [c EXCEPT !.pos = c.pos + m]]

\* a copy that leaves the cursor at its end
copy_to_slice_drain(c, n) ==
    IF Remaining(c) < n
    THEN [panic |-> TRUE, dst |-> Empty, cur |-> c]
    ELSE [panic |-> FALSE,
          dst |-> [i \in 0..(n - 1) |-> c.data[c.pos + i]],
          cur |-> [c EXCEPT !.pos = Len(c.data)]]

\* Buf::copy_to_slice: panics when fewer than n bytes remain, else copies the
\* next n bytes and advances past them
copy_to_slice(c, n) ==
    IF Remaining(c) < n
    THEN [panic |-> TRUE, dst |-> Empty, cur |-> c]
    ELSE [panic |-> FALSE,
          dst |-> [i \in 0..(n - 1) |-> c.data[c.pos + i]],
          cur |-> [c EXCEPT !.pos = c.pos + n]]

\* the outcome of a call: whether it panicked, the value returned, the cursor
Id_get_from_buf(c) ==
    LET r == copy_to_slice(c, ID_LEN) IN
    IF r.panic THEN [panic |-> TRUE, ret |-> None, cur |-> r.cur]
    ELSE [panic |-> FALSE, ret |-> Some(Id_from(r.dst)), cur |-> r.cur]

----------------------------------------------------------------------------
(* id_newtype!($t), instantiated for TimelineId and TenantId *)

Newtype_get_from_buf(t, c) ==
    LET r == Id_get_from_buf(c) IN
    IF r.panic THEN r
    ELSE [panic |-> FALSE, ret |-> Some(Newtype(t, r.ret.val)), cur |-> r.cur]

Newtype_as_arr(self) == Id_as_arr(self.id)

Newtype_from_array(t, b) == Newtype(t, Id(b))

Newtype_from_str(t, s) ==
    LET value == Id_from_str(s) IN
    IF value.ok THEN Ok(Newtype(t, value.val)) ELSE Err(value.err)

Newtype_from(t, b) == Newtype(t, Id_from(b))

Newtype_from_hex(t, hex) ==
    LET value == Id_from_hex(hex) IN
    IF value.ok THEN Ok(Newtype(t, value.val)) ELSE Err(value.err)

Newtype_into_u128(self) == Id_into_u128(self.id)

\* the text a derived Debug would give: the hex text in parentheses
Newtype_fmt_derived(self) ==
    LET t == Id_fmt(self.id) IN
    [k \in 0..(Len(t) + 1) |->
        IF k = 0 THEN 40 ELSE IF k = Len(t) + 1 THEN 41 ELSE t[k - 1]]

Newtype_fmt(self) == Id_fmt(self.id)

\* #[derive(PartialEq, Eq, PartialOrd, Ord)] on $t(Id): the field decides
Newtype_cmp(a, b) == Id_cmp(a.id, b.id)

Newtype_eq(a, b) == Id_eq(a.id, b.id)

----------------------------------------------------------------------------
(* mod poem: impl ParseFromJSON for Id *)

\* serde_json::Value: its variant, and the text of a String
JsonValue(variant, s) == [variant |-> variant, s |-> s]

\* Value::as_str
as_str(value) == IF value.variant = "String" THEN Some(value.s) ELSE None

\* poem_openapi::types::ParseError: expected_input(), expected_type(value),
\* and the conversion `?` makes of a FromHexError
ParseError(k, source) == [kind |-> k, source |-> source]

\* parse_from_json taking a JSON null for an absent value
parse_from_json_null_is_missing(value) ==
    IF ~value.some \/ value.val.variant = "Null"
    THEN Err(ParseError("expected_input", NoErr))
    ELSE LET s == as_str(value.val) IN
         IF ~s.some THEN Err(ParseError("expected_type", NoErr))
         ELSE LET r == Id_from_str(s.val) IN
              IF r.ok THEN Ok(r.val) ELSE Err(ParseError("custom", r.err))

parse_from_json(value) ==
    IF ~value.some THEN Err(ParseError("expected_input", NoErr))
    ELSE LET s == as_str(value.val) IN
         IF ~s.some THEN Err(ParseError("expected_type", NoErr))
         ELSE LET r == Id_from_str(s.val) IN
              IF r.ok THEN Ok(r.val) ELSE Err(ParseError("custom", r.err))

----------------------------------------------------------------------------
(* The inputs a run draws from *)

\* the bytes of a literal, indexed from 0
Lit(t) == [i \in 0..(Cardinality(DOMAIN t) - 1) |-> t[i + 1]]

\* the array of the doc comment of Id, ad50847381e248feaac9876cc71ae418
ExampleArr ==
    Lit(<<173, 80, 132, 115, 129, 226, 72, 254, 170, 201, 135, 108, 199, 26, 228, 24>>)

\* "9840a3586d1a413699627b1dcf3e5103"
ExampleStr ==
    Lit(<<57, 56, 52, 48, 97, 51, 53, 56, 54, 100, 49, 97, 52, 49, 51, 54,
          57, 57, 54, 50, 55, 98, 49, 100, 99, 102, 51, 101, 53, 49, 48, 51>>)

\* "zz"
ZzStr == Lit(<<122, 122>>)

Zero == [i \in 0..(ID_LEN - 1) |-> 0]

Ramp(v, step) == [i \in 0..(ID_LEN - 1) |-> (v + step * i) % 256]

Spike(p, x, z) == [i \in 0..(ID_LEN - 1) |-> IF i = p THEN x ELSE z]

ByteSamples == {0, 1, 15, 16, 128, 255}

IdArrays ==
    {Ramp(v, step) : v \in 0..255, step \in {1, 17}}
    \cup {Spike(p, x, z) : p \in 0..(ID_LEN - 1), x \in ByteSamples, z \in ByteSamples}
    \cup {ExampleArr}

PairArrays ==
    {Spike(p, x, z) : p \in {0, 1, ID_LEN - 2, ID_LEN - 1}, x \in {0, 1, 255}, z \in {0, 1, 255}}
    \cup {ExampleArr}

\* the characters around the edges of 0-9, A-F and a-f, and some far from them
CharSamples == {0, 47, 48, 57, 58, 64, 65, 70, 71, 96, 97, 102, 103, 195}

LowerDigit(d) == IF d < 10 THEN 48 + d ELSE 97 + (d - 10)
UpperDigit(d) == IF d < 10 THEN 48 + d ELSE 65 + (d - 10)

StrLens ==
    {0, 1, 2, ID_LEN}
    \cup ((2 * ID_LEN - MaxLenDelta)..(2 * ID_LEN + MaxLenDelta))

SpikeStr(n, p, c, base) == [k \in 0..(n - 1) |-> IF k = p THEN c ELSE base]

\* digit strings of every case mix: lower, upper, alternating
RampStr(n, v, step, case) ==
    [k \in 0..(n - 1) |->
        IF case = "lower" \/ (case = "mixed" /\ k % 2 = 0)
        THEN LowerDigit((v + step * k) % 16)
        ELSE UpperDigit((v + step * k) % 16)]

Strings ==
    {SpikeStr(n, p, c, base) : n \in StrLens, p \in 0..(2 * ID_LEN + MaxLenDelta),
                               c \in CharSamples, base \in {48, 102}}
    \cup {RampStr(n, v, step, case) : n \in {2 * ID_LEN, 4 * ID_LEN}, v \in 0..15,
                                      step \in {0, 1, 7}, case \in {"lower", "upper", "mixed"}}
    \cup {ExampleStr, ZzStr}

JsonValues ==
    {None}
    \cup {Some(JsonValue(variant, Empty)) : variant \in {"Null", "Bool", "Number", "Array", "Object"}}
    \cup {Some(JsonValue("String", s)) : s \in Strings}

Buffers ==
    {[data |-> [i \in 0..(n - 1) |-> (v + 7 * i) % 256], pos |-> Min(p, n)] :
        n \in 0..(2 * ID_LEN + MaxTail), p \in 0..MaxPos, v \in {0, 200}}

NoCursor == [data |-> Empty, pos |-> 0]

NoOrd == [cmp |-> "none", eq |-> FALSE]

----------------------------------------------------------------------------
(* The operations, applied to the type under exercise *)

Constructors == {"from", "from_array", "from_str", "from_hex", "get_from_buf", "parse_from_json"}

\* as_arr() of a value of the type under exercise
as_arr(t, v) == IF t = "Id" THEN Id_as_arr(v) ELSE Newtype_as_arr(v)

Init ==
    /\ ty \in Types
    /\ pc = "start"
    /\ res = NoErr
    /\ num = Empty
    /\ ord = NoOrd
    /\ \/ /\ kind = "bytes"
          /\ arr \in IdArrays
          /\ arr2 = Zero /\ str = Empty /\ json = None /\ cur = NoCursor
          /\ id = None /\ id2 = None /\ text = Empty
       \/ /\ kind = "pair"
          /\ arr \in PairArrays
          /\ arr2 \in PairArrays
          /\ str = Empty /\ json = None /\ cur = NoCursor
          /\ id = None /\ id2 = None /\ text = Empty
       \/ /\ kind = "text"
          /\ str \in Strings
          /\ text = str
          /\ arr = Zero /\ arr2 = Zero /\ json = None /\ cur = NoCursor
          /\ id = None /\ id2 = None
       \/ /\ kind = "json"
          /\ ty = "Id"
          /\ json \in JsonValues
          /\ arr = Zero /\ arr2 = Zero /\ str = Empty /\ cur = NoCursor
          /\ id = None /\ id2 = None /\ text = Empty
       \/ /\ kind = "buf"
          /\ cur \in Buffers
          /\ arr = Zero /\ arr2 = Zero /\ str = Empty /\ json = None
          /\ id = None /\ id2 = None /\ text = Empty

\* impl From<[u8; 16]> for Id / $t, and $t::from_array
From ==
    /\ kind \in {"bytes", "pair"}
    /\ pc = "start"
    /\ \E via \in {"from", "from_array"} :
        /\ via = "from_array" => ty \in Kinds
        /\ id' = Some(IF ty = "Id" THEN Id_from(arr)
                      ELSE IF via = "from" THEN Newtype_from(ty, arr)
                      ELSE Newtype_from_array(ty, arr))
        /\ id2' = IF kind # "pair" THEN None
                  ELSE Some(IF ty = "Id" THEN Id_from(arr2)
                            ELSE IF via = "from" THEN Newtype_from(ty, arr2)
                            ELSE Newtype_from_array(ty, arr2))
        /\ pc' = via
    /\ UNCHANGED <<ty, kind, arr, arr2, str, json, cur, text, res, num, ord>>

\* impl fmt::Display / fmt::Debug for Id / $t
Fmt ==
    /\ kind # "pair"
    /\ pc \in Constructors
    /\ id.some
    /\ \E trait \in {"Display", "Debug"} :
        /\ text' = IF ty = "Id" THEN Id_fmt(id.val) ELSE Newtype_fmt(id.val)
        /\ pc' = trait
    /\ UNCHANGED <<ty, kind, arr, arr2, str, json, cur, id, id2, res, num, ord>>

\* impl FromStr / FromHex for Id / $t, on the text at hand
FromStr ==
    /\ \/ kind = "text" /\ pc = "start"
       \/ pc \in {"Display", "Debug"}
    /\ \E via \in {"from_str", "from_hex"} :
        LET r == IF ty = "Id"
                 THEN (IF via = "from_str" THEN Id_from_str(text) ELSE Id_from_hex(text))
                 ELSE (IF via = "from_str" THEN Newtype_from_str(ty, text)
                       ELSE Newtype_from_hex(ty, text))
        IN /\ id' = IF r.ok THEN Some(r.val) ELSE None
           /\ res' = r.err
           /\ pc' = via
    /\ UNCHANGED <<ty, kind, arr, arr2, str, json, cur, id2, text, num, ord>>

\* impl From<Id> for u128 / impl From<$t> for u128
IntoU128 ==
    /\ kind # "pair"
    /\ pc \in Constructors
    /\ id.some
    /\ num' = IF ty = "Id" THEN Id_into_u128(id.val) ELSE Newtype_into_u128(id.val)
    /\ pc' = "u128"
    /\ UNCHANGED <<ty, kind, arr, arr2, str, json, cur, id, id2, text, res, ord>>

\* the derived comparison and equality of two values
Cmp ==
    /\ kind = "pair"
    /\ pc \in {"from", "from_array"}
    /\ ord' = IF ty = "Id"
              THEN [cmp |-> Id_cmp(id.val, id2.val), eq |-> Id_eq(id.val, id2.val)]
              ELSE [cmp |-> Newtype_cmp(id.val, id2.val), eq |-> Newtype_eq(id.val, id2.val)]
    /\ pc' = "cmp"
    /\ UNCHANGED <<ty, kind, arr, arr2, str, json, cur, id, id2, text, res, num>>

\* Id::get_from_buf / $t::get_from_buf; a panic ends the run
GetFromBuf ==
    /\ kind = "buf"
    /\ pc \in {"start", "get_from_buf"}
    /\ LET r == IF ty = "Id" THEN Id_get_from_buf(cur) ELSE Newtype_get_from_buf(ty, cur)
       IN /\ id' = r.ret
          /\ cur' = r.cur
          /\ pc' = IF r.panic THEN "panic" ELSE "get_from_buf"
    /\ UNCHANGED <<ty, kind, arr, arr2, str, json, id2, text, res, num, ord>>

\* <Id as ParseFromJSON>::parse_from_json
ParseFromJson ==
    /\ kind = "json"
    /\ pc = "start"
    /\ LET r == parse_from_json(json)
       IN /\ id' = IF r.ok THEN Some(r.val) ELSE None
          /\ res' = r.err
    /\ pc' = "parse_from_json"
    /\ UNCHANGED <<ty, kind, arr, arr2, str, json, cur, id2, text, num, ord>>

Next ==
    \/ From
    \/ Fmt
    \/ FromStr
    \/ IntoU128
    \/ Cmp
    \/ GetFromBuf
    \/ ParseFromJson

Spec == Init /\ [][Next]_vars

----------------------------------------------------------------------------
(* Vocabulary of the properties *)

LowerHexChars == (48..57) \cup (97..102)
AnyCaseHexChars == LowerHexChars \cup (65..70)

IsLowerHex32(s) == Len(s) = 2 * ID_LEN /\ \A k \in DOMAIN s : s[k] \in LowerHexChars
IsHex32(s) == Len(s) = 2 * ID_LEN /\ \A k \in DOMAIN s : s[k] \in AnyCaseHexChars

\* "ad50847381e248feaac9876cc71ae418"
ExampleHex ==
    Lit(<<97, 100, 53, 48, 56, 52, 55, 51, 56, 49, 101, 50, 52, 56, 102, 101,
          97, 97, 99, 57, 56, 55, 54, 99, 99, 55, 49, 97, 101, 52, 49, 56>>)

\* a precedes b in the lexicographic order of byte sequences
LexLess(a, b) ==
    \E i \in 0..(ID_LEN - 1) : a[i] < b[i] /\ \A j \in 0..(i - 1) : a[j] = b[j]

\* x < y as 128-bit unsigned integers: the highest bit that differs decides
U128Less(x, y) ==
    \E k \in 0..(U128_BITS - 1) :
        x[k] < y[k] /\ \A j \in (k + 1)..(U128_BITS - 1) : x[j] = y[j]

\* the digit of weight 256^i of the 128-bit integer x
Digit256(x, i) ==
    x[8 * i] + 2 * x[8 * i + 1] + 4 * x[8 * i + 2] + 8 * x[8 * i + 3]
    + 16 * x[8 * i + 4] + 32 * x[8 * i + 5] + 64 * x[8 * i + 6] + 128 * x[8 * i + 7]

Parsed == pc \in {"from_str", "from_hex"}
Shown == pc \in {"Display", "Debug"}

----------------------------------------------------------------------------
(* The properties *)

\* C1: the hex text of Id::from(b), parsed back by from_str / from_hex, is
\* accepted and gives an identifier whose as_arr() is b.
C1_BytesRoundTrip ==
    (kind = "bytes" /\ Parsed) =>
        (res = NoErr /\ id.some /\ as_arr(ty, id.val) = arr)

C1_Witness ==
    /\ kind = "bytes" /\ ty = "Id" /\ pc = "from_str"
    /\ arr = ExampleArr /\ text = ExampleHex
    /\ id.some /\ as_arr(ty, id.val) = ExampleArr

\* C2: a string of 32 characters of 0-9a-f is accepted by from_str, and the
\* hex text of the identifier it gives is that same string.
C2_TextRoundTrip ==
    (kind = "text" /\ IsLowerHex32(str)) =>
        /\ Parsed => (res = NoErr /\ id.some)
        /\ Shown => text = str

C2_Witness ==
    /\ kind = "text" /\ ty = "Id" /\ pc = "Display"
    /\ str = ExampleStr /\ text = ExampleStr

\* C3 as stated: from_str / from_hex gives an identifier exactly for the
\* strings of 32 characters of the lowercase alphabet 0-9a-f, and a decode
\* error and no identifier for every other string.
C3_OnlyLowerHexAccepted ==
    Parsed =>
        /\ IsLowerHex32(text) => (res = NoErr /\ id.some)
        /\ ~IsLowerHex32(text) => (res # NoErr /\ ~id.some)

\* C3 as amended: from_str / from_hex gives an identifier exactly for the
\* strings of 32 characters of 0-9, a-f and A-F, and a decode error and no
\* identifier for every other string: OddLength for an odd length,
\* InvalidStringLength for another even length, InvalidHexCharacter for a
\* character outside that alphabet.
C3_RejectsMalformed ==
    Parsed =>
        /\ IsHex32(text) => (res = NoErr /\ id.some)
        /\ ~IsHex32(text) =>
            /\ ~id.some
            /\ res.kind = (IF Len(text) % 2 # 0 THEN "OddLength"
                           ELSE IF Len(text) # 2 * ID_LEN THEN "InvalidStringLength"
                           ELSE "InvalidHexCharacter")

C3_Witness ==
    /\ kind = "text" /\ pc = "from_str"
    /\ Len(text) = 2 * ID_LEN
    /\ \E k \in DOMAIN text : text[k] = 103
    /\ ~id.some /\ res.kind = "InvalidHexCharacter" /\ res.c = 103

\* C4: the hex text of an identifier has exactly 32 characters, all of
\* 0-9a-f, and the characters 2i and 2i + 1 are the high and the low nibble of
\* byte i; the array of the doc comment gives ad50847381e248feaac9876cc71ae418.
C4_HexEncode ==
    Shown =>
        LET b == as_arr(ty, id.val) IN
        /\ Len(text) = 2 * ID_LEN
        /\ \A k \in DOMAIN text : text[k] \in LowerHexChars
        /\ \A i \in 0..(ID_LEN - 1) :
            /\ text[2 * i] = LowerDigit(b[i] \div 16)
            /\ text[2 * i + 1] = LowerDigit(b[i] % 16)
        /\ b = ExampleArr => text = ExampleHex

C4_Witness ==
    /\ pc = "Debug" /\ ty = "Id" /\ kind = "bytes"
    /\ arr = ExampleArr /\ text = ExampleHex

\* C5: a < b exactly when the bytes of a precede those of b in the
\* lexicographic order, and a == b exactly when the byte arrays are equal.
C5_ByteWiseOrder ==
    pc = "cmp" =>
        /\ (ord.cmp = "Less") <=> LexLess(arr, arr2)
        /\ (ord.cmp = "Equal") <=> (arr = arr2)
        /\ ord.eq <=> (arr = arr2)

\* a pair ordered one way by its bytes and the other way by its u128 values
C5_Witness ==
    /\ pc = "cmp" /\ ord.cmp = "Less"
    /\ U128Less(from_le_bytes(arr2), from_le_bytes(arr))

\* what a step must do for C6_GetFromBufConsumes16
GetFromBufConsumes16Step ==
    (pc' \in {"get_from_buf", "panic"} /\ Remaining(cur) >= ID_LEN) =>
        /\ pc' = "get_from_buf"
        /\ id'.some
        /\ \A i \in 0..(ID_LEN - 1) : as_arr(ty, id'.val)[i] = cur.data[cur.pos + i]
        /\ cur'.pos = cur.pos + ID_LEN
        /\ cur'.data = cur.data
        /\ Remaining(cur') = Remaining(cur) - ID_LEN

\* C6: with at least 16 bytes remaining, get_from_buf returns the identifier
\* of the next 16 bytes in order, advances the cursor by exactly 16 and leaves
\* the data as it was.
C6_GetFromBufConsumes16 == [][GetFromBufConsumes16Step]_vars

\* a second identifier read off a cursor that still holds bytes after it
C6_Witness ==
    /\ pc = "get_from_buf" /\ id.some
    /\ cur.pos = 2 * ID_LEN + 1
    /\ Remaining(cur) > 0

\* what a step must do for C7_UnderrunPanics
UnderrunPanicsStep ==
    (pc' \in {"get_from_buf", "panic"} /\ Remaining(cur) < ID_LEN) =>
        /\ pc' = "panic"
        /\ ~id'.some
        /\ res' = NoErr

\* C7: with fewer than 16 bytes remaining, get_from_buf panics: it returns no
\* identifier and no error value.
C7_UnderrunPanics == [][UnderrunPanicsStep]_vars

C7_Witness ==
    /\ pc = "panic" /\ ~id.some
    /\ Remaining(cur) > 0 /\ Remaining(cur) < ID_LEN

\* C8 as stated: parse_from_json fails with "missing input" for an absent
\* value and for a JSON null, with "wrong shape" for any other value that is
\* no string, with the decode error for a string from_str rejects, and gives
\* the identifier of from_str for a string it accepts.
C8_NullIsMissingInput ==
    pc = "parse_from_json" =>
        IF ~json.some \/ json.val.variant = "Null"
        THEN res.kind = "expected_input" /\ ~id.some
        ELSE IF json.val.variant # "String"
        THEN res.kind = "expected_type" /\ ~id.some
        ELSE IF ~IsHex32(json.val.s)
        THEN res.kind = "custom" /\ res.source.kind # "none" /\ ~id.some
        ELSE res = NoErr /\ id.some

\* C8 as amended: parse_from_json fails with "missing input" for an absent
\* value only, with "wrong shape" for any present value that is no string,
\* JSON null included, with the decode error for a string from_str rejects,
\* and gives the identifier of from_str for a string it accepts.
C8_JsonClassified ==
    pc = "parse_from_json" =>
        IF ~json.some
        THEN res.kind = "expected_input" /\ ~id.some
        ELSE IF json.val.variant # "String"
        THEN res.kind = "expected_type" /\ ~id.some
        ELSE IF ~IsHex32(json.val.s)
        THEN /\ res.kind = "custom"
             /\ res.source = Id_from_str(json.val.s).err
             /\ res.source.kind # "none"
             /\ ~id.some
        ELSE /\ res = NoErr
             /\ id.some
             /\ id.val = Id_from_str(json.val.s).val

C8_Witness ==
    /\ pc = "parse_from_json"
    /\ json.some /\ json.val.variant = "Null"
    /\ res.kind = "expected_type" /\ ~id.some

\* C9: the u128 of an identifier is the little-endian integer of its bytes:
\* it has 128 bits and its digit of weight 256^i is byte i, so that the bytes
\* can be read back off the integer.
C9_LittleEndian ==
    pc = "u128" =>
        /\ DOMAIN num = 0..(U128_BITS - 1)
        /\ \A i \in 0..(ID_LEN - 1) : Digit256(num, i) = as_arr(ty, id.val)[i]

\* byte 0 alone set to 1 gives the integer 1
C9_Witness ==
    /\ pc = "u128" /\ ty = "Id"
    /\ arr = Spike(0, 1, 0)
    /\ num[0] = 1 /\ \A k \in 1..(U128_BITS - 1) : num[k] = 0

\* what a step must do for C10_NewtypeDefers
NewtypeDefersStep ==
    ty \in Kinds =>
        /\ pc' \in {"from", "from_array"} =>
            (id'.some /\ id'.val.tag = ty /\ Newtype_as_arr(id'.val) = arr)
        /\ pc' \in {"from_str", "from_hex"} =>
            LET r == Id_from_str(text) IN
            /\ id'.some <=> r.ok
            /\ res' = r.err
            /\ r.ok => (id'.val.tag = ty /\ Newtype_as_arr(id'.val) = Id_as_arr(r.val))
        /\ pc' \in {"Display", "Debug"} =>
            text' = Id_fmt(Id_from(Newtype_as_arr(id.val)))
        /\ pc' = "u128" =>
            num' = Id_into_u128(Id_from(Newtype_as_arr(id.val)))
        /\ pc' \in {"get_from_buf", "panic"} =>
            LET r == Id_get_from_buf(cur) IN
            /\ cur' = r.cur
            /\ (pc' = "panic") <=> r.panic
            /\ id'.some <=> r.ret.some
            /\ r.ret.some =>
                (id'.val.tag = ty /\ Newtype_as_arr(id'.val) = Id_as_arr(r.ret.val))

\* C10: every operation id_newtype! generates for TimelineId and TenantId
\* gives what the operation of Id gives on the wrapped value: from and
\* from_array hold the array, from_str / from_hex accept, reject and report as
\* Id does, Display and Debug give the hex text of Id, the u128 is that of Id,
\* and get_from_buf consumes what Id::get_from_buf consumes.
C10_NewtypeDefers == [][NewtypeDefersStep]_vars

\* TenantId::from_str of the identifier the demonstration server returns
C10_Witness ==
    /\ ty = "TenantId" /\ pc = "from_str"
    /\ text = ExampleStr
    /\ id.some /\ id.val.tag = "TenantId"

====
